---- MODULE Spec2Model ----
(***************************************************************************)
(* Model of the accessibility integration bridge                           *)
(* (src/integration-bridge/src/index.ts): the update-docs, analyze and     *)
(* status commands of the CLI, the AccessibilityIntegrationBridge they     *)
(* drive, and the file system and clock they share.                        *)
(*                                                                         *)
(* Every command run is one operating-system process with its own bridge;  *)
(* the processes share the file system (cache file, report artifacts) and  *)
(* the wall clock.  Each `await` in the source is a suspension point, so   *)
(* one action of the model is the code between two awaits.                 *)
(*                                                                         *)
(* The ConfigManager of the same source is modelled next to it, with the   *)
(* configuration file and the environment it loads from (SpecConfig), and  *)
(* the text extraction of the bridge is also run on page texts of its own  *)
(* (SpecExtract).                                                          *)
(***************************************************************************)
EXTENDS Integers, Sequences, FiniteSets, TLC

(***************************************************************************)
(* Bounds of the model.                                                    *)
(***************************************************************************)
\* command runs that may be in flight at the same time
Procs == {"p1", "p2"}
\* latest clock value (hours) the model lets the clock reach
MaxClock == 24
\* number of command runs started in one behaviour
MaxRuns == 2
\* number of lines of a page text given to the extraction
MaxLines == 2
\* calls of ConfigManager methods after the singleton is constructed
MaxCalls == 3

(***************************************************************************)
(* Program constants.                                                      *)
(***************************************************************************)
\* defaultConfig.updateInterval (hours)
UpdateInterval == 24

DefaultUrl == "https://www.w3.org/WAI/WCAG21/"
DefaultOutputDir == "./output"
DefaultCacheDir == "./cache"

defaultConfig ==
  [wcagBaseUrl |-> DefaultUrl, outputDir |-> DefaultOutputDir,
   cacheDir |-> DefaultCacheDir, updateInterval |-> UpdateInterval,
   autoUpdate |-> TRUE]

\* { ...a, ...b }: the properties of a, overridden and extended by those of b
Spread(a, b) ==
  [k \in DOMAIN a \cup DOMAIN b |-> IF k \in DOMAIN b THEN b[k] ELSE a[k]]

(***************************************************************************)
(* Inputs: command lines, and the documentation site as the scraper sees   *)
(* it.                                                                     *)
(***************************************************************************)
OtherUrl == "https://www.w3.org/WAI/WCAG22/"
OtherCacheDir == "./alt-cache"

\* the options object commander passes to the update-docs action: the
\* values of --url, --output and --cache (each has a default)
UpdateDocsOptions ==
  { [url |-> DefaultUrl, output |-> DefaultOutputDir,
     cache |-> DefaultCacheDir],
    [url |-> OtherUrl, output |-> DefaultOutputDir,
     cache |-> OtherCacheDir] }

\* the options object commander passes to the analyze action: --output has
\* a default, --html, --url and --file are present only when given
AnalyzeOptions ==
  { [output |-> DefaultOutputDir],
    [output |-> DefaultOutputDir, html |-> "<img src=logo.png>"],
    [output |-> DefaultOutputDir, url |-> "https://example.com"] }

\* process.env of an analyze run, as far as a target compliance level is
\* concerned: WCAG_LEVEL is the variable the configuration of the
\* integration names for it
NoEnv == [x \in {} |-> ""]
AnalyzeEnvs == { NoEnv, [WCAG_LEVEL |-> "AAA"] }

\* the invocations of the analyze command: options object and environment
\* (the environment is varied for the runs given --html)
AnalyzeRuns ==
  { r \in [options : AnalyzeOptions, env : AnalyzeEnvs] :
      r.env = NoEnv \/ "html" \in DOMAIN r.options }

\* what the evaluator, the compliance checker and the ARIA validator may
\* return for a document: issue count, compliance level, ARIA issue count
AnalysisOutcomes ==
  { [totalIssues |-> 0, level |-> "AAA", ariaIssues |-> 0],
    [totalIssues |-> 1, level |-> "AA", ariaIssues |-> 1],
    [totalIssues |-> 2, level |-> "A", ariaIssues |-> 0],
    [totalIssues |-> 3, level |-> "none", ariaIssues |-> 1] }

\* a page URL of the mapped site: `words` are the substrings that
\* String.includes is asked about
PageUrl(base, words) == [base |-> base, words |-> words]
GuidelinesUrlOf(base) == PageUrl(base, {"guidelines"})
CriteriaUrlOf(base) == PageUrl(base, {"success-criteria"})
IndexUrlOf(base) == PageUrl(base, {})

\* the URL lists mapWCAGSite may resolve to for a base URL
SiteMaps(base) ==
  { <<IndexUrlOf(base)>>,
    <<IndexUrlOf(base), GuidelinesUrlOf(base)>>,
    <<CriteriaUrlOf(base), IndexUrlOf(base)>>,
    <<GuidelinesUrlOf(base), CriteriaUrlOf(base)>> }

\* one line of scraped page text: the dotted number it starts with (<<>> if
\* none), the text after the white space that follows the number, and the
\* lower-case level markers the whole line contains
Line(nums, rest, marks) == [nums |-> nums, rest |-> rest, marks |-> marks]

\* the text scrapePage returns for a page
PageContent(page) ==
  IF "guidelines" \in page.words
  THEN IF page.base = DefaultUrl
       THEN << Line(<<>>, "Introduction", {}),
               Line(<<1, 1>>, "Text Alternatives", {}) >>
       ELSE << Line(<<2, 5>>, "Input Modalities", {}) >>
  ELSE IF "success-criteria" \in page.words
  THEN IF page.base = DefaultUrl
       THEN << Line(<<1, 1, 1>>, "Non-text Content Level A", {}),
               Line(<<1, 4, 3>>, "Contrast (Minimum) Level AA", {"aa"}) >>
       ELSE << Line(<<2, 5, 5>>, "Target Size Level AAA", {"aa", "aaa"}) >>
  ELSE << Line(<<>>, "Web Content Accessibility Guidelines", {}) >>

(***************************************************************************)
(* Pure functions of the bridge.                                           *)
(***************************************************************************)
\* Array.prototype.find: the first element satisfying the test, or
\* undefined
RECURSIVE FindFrom(_, _, _)
FindFrom(s, word, i) ==
  IF i > Len(s) THEN [found |-> FALSE]
  ELSE IF word \in s[i].words THEN [found |-> TRUE, url |-> s[i]]
  ELSE FindFrom(s, word, i + 1)

Find(s, word) == FindFrom(s, word, 1)

\* the last n components of a dotted number
LastN(nums, n) == SubSeq(nums, Len(nums) - n + 1, Len(nums))

\* line.match(/(\d+\.\d+)\s+(.+)/): the leftmost match takes the last two
\* components of the dotted number that the white space follows
RECURSIVE ExtractGuidelinesFrom(_, _)
ExtractGuidelinesFrom(content, i) ==
  IF i > Len(content) THEN <<>>
  ELSE LET line == content[i]
           tail == ExtractGuidelinesFrom(content, i + 1)
       IN IF Len(line.nums) >= 2 /\ line.rest # ""
          THEN <<[id |-> LastN(line.nums, 2), title |-> line.rest]>> \o tail
          ELSE tail

extractGuidelines(content) == ExtractGuidelinesFrom(content, 1)

\* the level as it would be if the test for "aa" came as an else-if before
\* the test for "aaa"
LevelOf_AAFirst(line) ==
  IF "aa" \in line.marks THEN "AA"
  ELSE IF "aaa" \in line.marks THEN "AAA"
  ELSE "A"

\* let level = "A"; then "AA" if the lower-cased line includes "aa"; then
\* "AAA" if it includes "aaa"
LevelOf(line) ==
  IF "aaa" \in line.marks THEN "AAA"
  ELSE IF "aa" \in line.marks THEN "AA"
  ELSE "A"

RECURSIVE ExtractSuccessCriteriaFrom(_, _)
ExtractSuccessCriteriaFrom(content, i) ==
  IF i > Len(content) THEN <<>>
  ELSE LET line == content[i]
           tail == ExtractSuccessCriteriaFrom(content, i + 1)
       IN IF Len(line.nums) >= 3 /\ line.rest # ""
          THEN <<[id |-> LastN(line.nums, 3), title |-> line.rest,
                  level |-> LevelOf(line)]>> \o tail
          ELSE tail

extractSuccessCriteria(content) == ExtractSuccessCriteriaFrom(content, 1)

\* path.join(dir, name)
PathJoin(dir, name) == <<dir, name>>
\* the cache file of a cache directory
DataPath(cacheDir) == PathJoin(cacheDir, <<"wcag-data.json">>)

\* Date.prototype.toJSON: the ISO-8601 text of a time
ToISOString(t) == [iso |-> t]
\* new Date(text): the time an ISO-8601 text denotes
ParseDate(text) == text.iso

\* the text fs.writeJson stores for a ScrapedWCAGData object
SnapshotJson(data) ==
  [kind |-> "json",
   value |-> [guidelines |-> data.guidelines,
              successCriteria |-> data.successCriteria,
              techniques |-> data.techniques,
              lastUpdated |-> ToISOString(data.lastUpdated)]]

\* a file that is not JSON text
CorruptFile == [kind |-> "corrupt"]

EmptyData(t) ==
  [guidelines |-> <<>>, successCriteria |-> <<>>, techniques |-> <<>>,
   lastUpdated |-> t]

NoData == [guidelines |-> <<>>, successCriteria |-> <<>>,
           techniques |-> <<>>, lastUpdated |-> -1]

\* the snapshot an earlier complete refresh of the default source stored
OldSnapshot ==
  SnapshotJson([guidelines |-> extractGuidelines(
                                 PageContent(GuidelinesUrlOf(DefaultUrl))),
                successCriteria |-> extractSuccessCriteria(
                                 PageContent(CriteriaUrlOf(DefaultUrl))),
                techniques |-> <<>>,
                lastUpdated |-> 0])

\* UTF-16 code units of the strings the bridge compares
CharCodes(s) ==
  CASE s = "A" -> <<65>>
    [] s = "AA" -> <<65, 65>>
    [] s = "AAA" -> <<65, 65, 65>>
    [] s = "none" -> <<110, 111, 110, 101>>

\* a < b for sequences of code units, as JavaScript orders strings
RECURSIVE LexLess(_, _)
LexLess(a, b) ==
  IF b = <<>> THEN FALSE
  ELSE IF a = <<>> THEN TRUE
  ELSE IF Head(a) # Head(b) THEN Head(a) < Head(b)
  ELSE LexLess(Tail(a), Tail(b))

\* the JavaScript expression  a >= b  on strings
StringGE(a, b) == ~LexLess(CharCodes(a), CharCodes(b))

\* the target level analyzeAccessibility passes to evaluateCompliance
TargetLevel == "AA"

\* the calls analyzeAccessibility makes on the components of the bridge, in
\* program order, each with the values it is given
AnalysisCalls ==
  << [callee |-> "evaluator.evaluateHTML", args |-> <<"html">>],
     [callee |-> "wcagChecker.evaluateCompliance",
      args |-> <<"evaluationResult", TargetLevel>>],
     [callee |-> "ariaValidator.validate", args |-> <<"html">>] >>

\* the report object analyzeAccessibility builds
BuildReport(t, url, outcome) ==
  [timestamp |-> t,
   url |-> url,
   evaluation |-> [summary |-> [totalIssues |-> outcome.totalIssues]],
   compliance |-> [level |-> outcome.level],
   aria |-> [issues |-> outcome.ariaIssues],
   summary |-> [totalIssues |-> outcome.totalIssues,
                complianceLevel |-> outcome.level,
                meetsAA |-> StringGE(outcome.level, "AA"),
                ariaIssues |-> outcome.ariaIssues]]

\* `accessibility-report-${Date.now()}.json` in the output directory
ReportPath(outputDir, t) ==
  PathJoin(outputDir, <<"accessibility-report-", t, ".json">>)

\* the text fs.writeJson stores for a report
ReportJson(report) ==
  [kind |-> "json",
   value |-> [report EXCEPT !.timestamp = ToISOString(report.timestamp)]]

(***************************************************************************)
(* ConfigManager: values, inputs and pure functions.                       *)
(*                                                                         *)
(* A configuration is a record of sections, a section a record of fields;  *)
(* a field an object does not have is absent from the record (reading it   *)
(* gives undefined).  The model keeps the fields validateConfig reads.     *)
(* A number is [num |-> n], the number NaN is [nan |-> TRUE]; a string of  *)
(* the environment that is to be parsed is the sequence of its characters. *)
(***************************************************************************)
Num(n) == [num |-> n]
NaN == [nan |-> TRUE]

\* getDefaultConfig()
getDefaultConfig ==
  [scraper |-> [wcagBaseUrl |-> DefaultUrl,
                maxConcurrentRequests |-> Num(5),
                requestDelayMs |-> Num(1000),
                timeoutMs |-> Num(30000),
                userAgent |-> "Mozilla/5.0"],
   evaluator |-> [wcagLevel |-> "AA", minImpactLevel |-> "moderate"],
   integration |-> [updateInterval |-> Num(UpdateInterval),
                    cacheExpiration |-> Num(168)],
   logging |-> [level |-> "info"]]

\* the value of a decimal digit, -1 for any other character
DigitOf(ch) ==
  CASE ch = "0" -> 0 [] ch = "1" -> 1 [] ch = "2" -> 2 [] ch = "3" -> 3
    [] ch = "4" -> 4 [] ch = "5" -> 5 [] ch = "6" -> 6 [] ch = "7" -> 7
    [] ch = "8" -> 8 [] ch = "9" -> 9 [] OTHER -> -1

\* the value of the digits of s from position i on, up to the first
\* character that is not a digit
RECURSIVE DigitsFrom(_, _, _)
DigitsFrom(s, i, acc) ==
  IF i > Len(s) \/ DigitOf(s[i]) < 0 THEN acc
  ELSE DigitsFrom(s, i + 1, acc * 10 + DigitOf(s[i]))

\* parseInt(s): an optional sign and the longest prefix of digits; NaN when
\* there is no digit at the start
parseInt(s) ==
  LET signed == Len(s) > 0 /\ s[1] \in {"-", "+"}
      first == IF signed THEN 2 ELSE 1
  IN IF first > Len(s) \/ DigitOf(s[first]) < 0 THEN NaN
     ELSE IF signed /\ s[1] = "-" THEN Num(0 - DigitsFrom(s, first, 0))
     ELSE Num(DigitsFrom(s, first, 0))

\* this.config.<section>.<field> = value
SetField(c, section, field, value) ==
  [c EXCEPT ![section] =
     [f \in DOMAIN c[section] \cup {field} |->
        IF f = field THEN value ELSE c[section][f]]]

\* loadFromEnvironment(): every variable that is set (and not empty)
\* overwrites its field, numbers through parseInt
loadFromEnvironment(c, e) ==
  LET Given(name) == name \in DOMAIN e /\ e[name] # ""
      GivenNumber(name) == name \in DOMAIN e /\ e[name] # <<>>
      c1 == IF Given("WCAG_BASE_URL")
            THEN SetField(c, "scraper", "wcagBaseUrl", e.WCAG_BASE_URL)
            ELSE c
      c2 == IF GivenNumber("MAX_CONCURRENT_REQUESTS")
            THEN SetField(c1, "scraper", "maxConcurrentRequests",
                          parseInt(e.MAX_CONCURRENT_REQUESTS))
            ELSE c1
      c3 == IF GivenNumber("REQUEST_DELAY_MS")
            THEN SetField(c2, "scraper", "requestDelayMs",
                          parseInt(e.REQUEST_DELAY_MS))
            ELSE c2
      c4 == IF GivenNumber("TIMEOUT_MS")
            THEN SetField(c3, "scraper", "timeoutMs", parseInt(e.TIMEOUT_MS))
            ELSE c3
      c5 == IF Given("WCAG_LEVEL")
            THEN SetField(c4, "evaluator", "wcagLevel", e.WCAG_LEVEL)
            ELSE c4
      c6 == IF Given("MIN_IMPACT_LEVEL")
            THEN SetField(c5, "evaluator", "minImpactLevel",
                          e.MIN_IMPACT_LEVEL)
            ELSE c5
      c7 == IF GivenNumber("UPDATE_INTERVAL")
            THEN SetField(c6, "integration", "updateInterval",
                          parseInt(e.UPDATE_INTERVAL))
            ELSE c6
  IN IF Given("LOG_LEVEL")
     THEN SetField(c7, "logging", "level", e.LOG_LEVEL)
     ELSE c7

\* loadConfig(): the sections of a readable config file replace the
\* sections of the defaults, then the environment is applied
loadConfig(c, file, e) ==
  loadFromEnvironment(
    IF file.kind = "json" THEN Spread(c, file.value) ELSE c, e)

\* field < n in JavaScript: false for NaN and for undefined
FieldLess(section, field, n) ==
  /\ field \in DOMAIN section
  /\ "num" \in DOMAIN section[field]
  /\ section[field].num < n

\* !field : the field is undefined or the empty string
FieldFalsy(section, field) ==
  field \notin DOMAIN section \/ section[field] = ""

\* !list.includes(field)
FieldNotIn(section, field, list) ==
  field \notin DOMAIN section \/ section[field] \notin list

\* errors.push(message) when the test holds
ErrorIf(test, message) == IF test THEN <<message>> ELSE <<>>

\* validateConfig() on configuration c
validateConfig(c) ==
  LET errors ==
        ErrorIf(FieldFalsy(c.scraper, "wcagBaseUrl"),
                "WCAG base URL is required")
        \o ErrorIf(FieldLess(c.scraper, "maxConcurrentRequests", 1),
                   "Max concurrent requests must be at least 1")
        \o ErrorIf(FieldLess(c.scraper, "requestDelayMs", 0),
                   "Request delay must be non-negative")
        \o ErrorIf(FieldLess(c.scraper, "timeoutMs", 1000),
                   "Timeout must be at least 1000ms")
        \o ErrorIf(FieldNotIn(c.evaluator, "wcagLevel", {"A", "AA", "AAA"}),
                   "WCAG level must be A, AA, or AAA")
        \o ErrorIf(
             FieldNotIn(c.evaluator, "minImpactLevel",
                        {"minor", "moderate", "serious", "critical"}),
             "Min impact level must be minor, moderate, serious, or critical")
        \o ErrorIf(FieldLess(c.integration, "updateInterval", 1),
                   "Update interval must be at least 1 hour")
        \o ErrorIf(FieldLess(c.integration, "cacheExpiration", 1),
                   "Cache expiration must be at least 1 hour")
        \o ErrorIf(FieldNotIn(c.logging, "level",
                              {"error", "warn", "info", "debug"}),
                   "Log level must be error, warn, info, or debug")
  IN [isValid |-> Len(errors) = 0, errors |-> errors]

\* the environments the ConfigManager may be constructed in
LevelEnvs == { NoEnv, [WCAG_LEVEL |-> "AAA"], [WCAG_LEVEL |-> "B"] }
IntervalEnvs ==
  { NoEnv, [UPDATE_INTERVAL |-> <<"4", "8">>], [UPDATE_INTERVAL |-> <<"0">>],
    [UPDATE_INTERVAL |-> <<"-", "5">>],
    [UPDATE_INTERVAL |-> <<"a", "b", "c">>],
    [UPDATE_INTERVAL |-> <<"1", "2", "h">>] }
TimeoutEnvs == { NoEnv, [TIMEOUT_MS |-> <<"5", "0", "0">>] }
CmEnvs ==
  { Spread(Spread(l, i), t) :
      l \in LevelEnvs, i \in IntervalEnvs, t \in TimeoutEnvs }

\* the contents accessibility-integration.config.json may have
NoFile == [kind |-> "absent"]
ConfigFiles ==
  { NoFile, CorruptFile,
    [kind |-> "json", value |-> [x \in {} |-> NoFile]],
    [kind |-> "json",
     value |-> [evaluator |->
                  [wcagLevel |-> "AAA", minImpactLevel |-> "serious"]]],
    [kind |-> "json", value |-> [evaluator |-> [wcagLevel |-> "AAAA"]]],
    [kind |-> "json",
     value |-> [integration |->
                  [updateInterval |-> Num(0), cacheExpiration |-> Num(168)]]],
    [kind |-> "json",
     value |-> [integration |->
                  [updateInterval |-> Num(12), cacheExpiration |-> Num(24)],
                logging |-> [level |-> "debug"]]],
    [kind |-> "json",
     value |-> [scraper |-> [wcagBaseUrl |-> DefaultUrl,
                             maxConcurrentRequests |-> Num(5),
                             requestDelayMs |-> Num(1000),
                             timeoutMs |-> Num(30000)],
                evaluator |->
                  [wcagLevel |-> "AA", minImpactLevel |-> "moderate"],
                integration |->
                  [updateInterval |-> Num(24), cacheExpiration |-> Num(168)],
                logging |-> [level |-> "info"]]] }

\* this.config before the constructor has run
NoConfig == [x \in {} |-> NoFile]
NoValidation == [called |-> FALSE]

\* JSON.stringify of a number: null for NaN
Null == [null |-> TRUE]
NumericFields ==
  {"maxConcurrentRequests", "requestDelayMs", "timeoutMs", "updateInterval",
   "cacheExpiration"}
JsonOfSection(section) ==
  [f \in DOMAIN section |->
     IF f \in NumericFields /\ section[f] = NaN THEN Null ELSE section[f]]
\* the file fs.writeJson(this.configPath, c) leaves
ConfigJson(c) ==
  [kind |-> "json", value |-> [s \in DOMAIN c |-> JsonOfSection(c[s])]]

\* the `updates` arguments of updateConfig: a section with one of its
\* fields, and a whole section
UpdateInputs ==
  { [evaluator |-> [wcagLevel |-> "A"]],
    [logging |-> [level |-> "debug"]] }

\* what a caller holds of a configuration object: nothing, or the object
\* getConfig returned, with the sections of it that are still the very
\* objects this.config refers to
NoCopy == [kind |-> "none"]
\* the assignments a caller makes to the object it holds: to a field of a
\* section, and to a section
NestedWrites ==
  { [section |-> "integration", field |-> "updateInterval",
     value |-> Num(0)] }
TopLevelWrites ==
  { [section |-> "logging", value |-> [level |-> "error"]] }

(***************************************************************************)
(* State.                                                                  *)
(***************************************************************************)
VARIABLES
  now,          \* the wall clock (new Date(), Date.now()), in hours
  runs,         \* command runs started so far
  dirs,         \* the directories that exist
  files,        \* the files that exist: path -> content
  cacheSource,  \* cache file path -> the source URL its refresh was run for
  cmd,          \* the command each process runs
  pc,           \* the await each process is suspended at
  options,      \* the options object of the command's action callback
  config,       \* this.config of the process's bridge
  env,          \* process.env of the process
  ruleCatalog,  \* ids of the scraped entries the bridge gave this.evaluator
  urls,         \* local `urls` of updateWCAGDocumentation
  scrapedData,  \* local `scrapedData` of updateWCAGDocumentation
  pageStatus,   \* what became of the two page scrapes of the call
  mapCalls,     \* mapWCAGSite calls the refresh of the process has made
  report,       \* local `report` of analyzeAccessibility
  reportPath,   \* local `reportPath` of analyzeAccessibility
  calls,        \* the component calls analyzeAccessibility has made
  result,       \* value the bridge method returned to the command
  spinner,      \* how the bridge method left its ora spinner
  stdout,       \* what the status command printed about the cache
  cmEnv,        \* process.env of the process that holds the ConfigManager
  configFile,   \* accessibility-integration.config.json of that process
  cmConfig,     \* ConfigManager.config
  cmPc,         \* where the ConfigManager is: not constructed, idle, or
                \* at an await of saveConfig
  cmCall,       \* the last updateConfig or resetToDefaults call started
  cmCalls,      \* calls of ConfigManager methods so far
  held,         \* the configuration object a caller got from getConfig
  validation,   \* what the last validateConfig call returned
  pageText,     \* a page text given to the extraction
  extracted     \* what the extraction returned for it

\* the state of the command runs
cliVars == <<now, runs, dirs, files, cacheSource, cmd, pc, options, config,
             env, ruleCatalog, urls, scrapedData, pageStatus, mapCalls,
             report, reportPath, calls, result, spinner, stdout>>
\* the state of the ConfigManager
cmVars == <<cmEnv, configFile, cmConfig, cmPc, cmCall, cmCalls, held,
            validation>>
\* the state of the extraction runs
extractVars == <<pageText, extracted>>

vars == <<cliVars, cmVars, extractVars>>

envVars == <<now, runs, dirs, files, cacheSource>>
bridgeVars == <<cmd, options, config, env, ruleCatalog>>
refreshVars == <<urls, scrapedData, pageStatus, mapCalls>>
analysisVars == <<report, reportPath, calls>>

NoOptions == [output |-> DefaultOutputDir]
NoResult == [kind |-> "none"]
NoPages == [g |-> "pending", c |-> "pending"]
NoReport == [timestamp |-> -1]
NoPath == <<"", <<"">>>>
NoOutput == [printed |-> FALSE]
NoSpinner == [state |-> "none"]

\* the file system after writing content to path
WriteFile(fs, path, content) ==
  [q \in DOMAIN fs \cup {path} |-> IF q = path THEN content ELSE fs[q]]

NoFiles == [q \in {} |-> CorruptFile]

\* no command has run yet
ProcInit ==
  /\ now = 0
  /\ runs = 0
  /\ cmd = [p \in Procs |-> "none"]
  /\ pc = [p \in Procs |-> "idle"]
  /\ options = [p \in Procs |-> NoOptions]
  /\ config = [p \in Procs |-> defaultConfig]
  /\ env = [p \in Procs |-> NoEnv]
  /\ ruleCatalog = [p \in Procs |-> {}]
  /\ urls = [p \in Procs |-> <<>>]
  /\ scrapedData = [p \in Procs |-> NoData]
  /\ pageStatus = [p \in Procs |-> NoPages]
  /\ mapCalls = [p \in Procs |-> 0]
  /\ report = [p \in Procs |-> NoReport]
  /\ reportPath = [p \in Procs |-> NoPath]
  /\ calls = [p \in Procs |-> <<>>]
  /\ result = [p \in Procs |-> NoResult]
  /\ spinner = [p \in Procs |-> NoSpinner]
  /\ stdout = [p \in Procs |-> NoOutput]

\* the working directory is empty, or has the two directories and a cache
\* file that is not JSON, or has them and the snapshot of an earlier refresh
CliInit ==
  /\ ProcInit
  /\ \/ /\ dirs = {}
        /\ files = NoFiles
        /\ cacheSource = [q \in {} |-> DefaultUrl]
     \/ /\ dirs = {DefaultOutputDir, DefaultCacheDir}
        /\ files = WriteFile(NoFiles, DataPath(DefaultCacheDir), CorruptFile)
        /\ cacheSource = [q \in {} |-> DefaultUrl]
     \/ /\ dirs = {DefaultOutputDir, DefaultCacheDir}
        /\ files = WriteFile(NoFiles, DataPath(DefaultCacheDir), OldSnapshot)
        /\ cacheSource = [q \in {DataPath(DefaultCacheDir)} |-> DefaultUrl]

\* no ConfigManager is constructed
CmIdle ==
  /\ cmEnv = NoEnv
  /\ configFile = NoFile
  /\ cmConfig = NoConfig
  /\ cmPc = "none"
  /\ cmCall = "none"
  /\ cmCalls = 0
  /\ held = NoCopy
  /\ validation = NoValidation

\* no page text is given to the extraction
ExtractIdle ==
  /\ pageText = <<>>
  /\ extracted = [kind |-> "none"]

Init == CliInit /\ CmIdle /\ ExtractIdle

(***************************************************************************)
(* The clock.                                                              *)
(***************************************************************************)
\* the amounts of time (hours) that pass between two steps of the model: an
\* update interval, so that a snapshot is either of age 0 (Fresh) or of an
\* age of at least the interval (Stale)
TickSteps == {UpdateInterval}

Tick ==
  /\ \E d \in TickSteps :
       /\ now + d <= MaxClock
       /\ now' = now + d
  /\ UNCHANGED <<runs, dirs, files, cacheSource, pc, bridgeVars, refreshVars,
                 analysisVars, result, spinner, stdout>>
  /\ UNCHANGED <<cmVars, extractVars>>

(***************************************************************************)
(* Process start and end.                                                  *)
(***************************************************************************)
Finished(p) == pc[p] \in {"idle", "exit0", "exit1"}

\* the memory of a process that is not running
ClearMemory(p) ==
  /\ cmd' = [cmd EXCEPT ![p] = "none"]
  /\ options' = [options EXCEPT ![p] = NoOptions]
  /\ config' = [config EXCEPT ![p] = defaultConfig]
  /\ env' = [env EXCEPT ![p] = NoEnv]
  /\ ruleCatalog' = [ruleCatalog EXCEPT ![p] = {}]
  /\ urls' = [urls EXCEPT ![p] = <<>>]
  /\ scrapedData' = [scrapedData EXCEPT ![p] = NoData]
  /\ pageStatus' = [pageStatus EXCEPT ![p] = NoPages]
  /\ mapCalls' = [mapCalls EXCEPT ![p] = 0]
  /\ report' = [report EXCEPT ![p] = NoReport]
  /\ reportPath' = [reportPath EXCEPT ![p] = NoPath]
  /\ calls' = [calls EXCEPT ![p] = <<>>]
  /\ result' = [result EXCEPT ![p] = NoResult]
  /\ spinner' = [spinner EXCEPT ![p] = NoSpinner]

\* the process ends: process.exit(1) in the catch block of the command, or
\* the action callback returns
Exit(p, code) ==
  /\ pc' = [pc EXCEPT ![p] = code]
  /\ ClearMemory(p)

\* const config = { ...defaultConfig, ...options };
\* const bridge = new AccessibilityIntegrationBridge(config);
\* then the command suspends in bridge.initialize()
StartBridge(p, name, opts, environment) ==
  /\ Finished(p)
  /\ runs < MaxRuns
  /\ runs' = runs + 1
  /\ cmd' = [cmd EXCEPT ![p] = name]
  /\ options' = [options EXCEPT ![p] = opts]
  /\ config' = [config EXCEPT ![p] = Spread(defaultConfig, opts)]
  /\ env' = [env EXCEPT ![p] = environment]
  /\ ruleCatalog' = [ruleCatalog EXCEPT ![p] = {}]
  /\ pc' = [pc EXCEPT ![p] = "initialize"]
  /\ stdout' = [stdout EXCEPT ![p] = NoOutput]
  /\ UNCHANGED <<now, dirs, files, cacheSource, refreshVars, analysisVars,
                 result, spinner>>
  /\ UNCHANGED <<cmVars, extractVars>>

StartUpdateDocs(p) ==
  \E opts \in UpdateDocsOptions : StartBridge(p, "update-docs", opts, NoEnv)

StartAnalyze(p) ==
  \E run \in AnalyzeRuns :
    StartBridge(p, "analyze", run.options, run.env)

\* the await the command reaches after bridge.initialize() resolves:
\* update-docs calls updateWCAGDocumentation, which suspends in mapWCAGSite;
\* analyze goes on to obtain the markup
AfterInitialize(p) ==
  IF cmd[p] = "update-docs" THEN "mapSite" ELSE "readInput"

\* the file system without the files of a directory
RemoveDir(fs, dir) == [q \in {x \in DOMAIN fs : x[1] # dir} |-> fs[q]]

\* initialize as it would be with fs.emptyDir in place of fs.ensureDir for
\* the cache directory
Initialize_EmptyDir(p) ==
  /\ pc[p] = "initialize"
  /\ \E failure \in {"none", "outputDir", "cacheDir", "docFetcher"} :
       /\ dirs' = CASE failure = "outputDir" -> dirs
                    [] failure = "cacheDir" ->
                         dirs \cup {config[p].outputDir}
                    [] OTHER ->
                         dirs \cup {config[p].outputDir, config[p].cacheDir}
       /\ files' = IF failure \in {"none", "docFetcher"}
                   THEN RemoveDir(files, config[p].cacheDir) ELSE files
       /\ IF failure = "none"
          THEN /\ pc' = [pc EXCEPT ![p] = AfterInitialize(p)]
               /\ mapCalls' = [mapCalls EXCEPT ![p] =
                                 IF cmd[p] = "update-docs" THEN @ + 1 ELSE @]
               /\ UNCHANGED <<bridgeVars, urls, scrapedData, pageStatus,
                              analysisVars, result, spinner>>
          ELSE Exit(p, "exit1")
  /\ UNCHANGED <<now, runs, cacheSource, stdout>>
  /\ UNCHANGED <<cmVars, extractVars>>

\* bridge.initialize(): ensureDir(outputDir), ensureDir(cacheDir),
\* docFetcher.initialize(); the first failure is rethrown and the command
\* exits with status 1
Initialize(p) ==
  /\ pc[p] = "initialize"
  /\ \E failure \in {"none", "outputDir", "cacheDir", "docFetcher"} :
       /\ dirs' = CASE failure = "outputDir" -> dirs
                    [] failure = "cacheDir" ->
                         dirs \cup {config[p].outputDir}
                    [] OTHER ->
                         dirs \cup {config[p].outputDir, config[p].cacheDir}
       /\ IF failure = "none"
          THEN /\ pc' = [pc EXCEPT ![p] = AfterInitialize(p)]
               /\ mapCalls' = [mapCalls EXCEPT ![p] =
                                 IF cmd[p] = "update-docs" THEN @ + 1 ELSE @]
               /\ UNCHANGED <<bridgeVars, urls, scrapedData, pageStatus,
                              analysisVars, result, spinner>>
          ELSE Exit(p, "exit1")
  /\ UNCHANGED <<now, runs, files, cacheSource, stdout>>
  /\ UNCHANGED <<cmVars, extractVars>>

(***************************************************************************)
(* update-docs command: updateWCAGDocumentation.                           *)
(***************************************************************************)
\* where updateWCAGDocumentation suspends next once the guidelines page is
\* dealt with
AfterGuidelines(us) ==
  IF Find(us, "success-criteria").found THEN "scrapeCriteria"
  ELSE "writeCache"

AfterMap(us) ==
  IF Find(us, "guidelines").found THEN "scrapeGuidelines"
  ELSE AfterGuidelines(us)

\* updateWCAGDocumentation as it would be if it called mapWCAGSite again
\* when the call rejects
MapSite_Retry(p) ==
  /\ pc[p] = "mapSite"
  /\ \/ Exit(p, "exit1")
     \/ /\ mapCalls[p] < 2
        /\ mapCalls' = [mapCalls EXCEPT ![p] = @ + 1]
        /\ UNCHANGED <<pc, bridgeVars, urls, scrapedData, pageStatus,
                       analysisVars, result, spinner>>
     \/ \E us \in SiteMaps(config[p].wcagBaseUrl) :
          /\ urls' = [urls EXCEPT ![p] = us]
          /\ scrapedData' = [scrapedData EXCEPT ![p] = EmptyData(now)]
          /\ pageStatus' = [pageStatus EXCEPT ![p] =
               [g |-> IF Find(us, "guidelines").found
                      THEN "pending" ELSE "notfound",
                c |-> IF Find(us, "success-criteria").found
                      THEN "pending" ELSE "notfound"]]
          /\ pc' = [pc EXCEPT ![p] = AfterMap(us)]
          /\ UNCHANGED <<bridgeVars, mapCalls, analysisVars, result, spinner>>
  /\ UNCHANGED <<envVars, stdout>>
  /\ UNCHANGED <<cmVars, extractVars>>

\* await this.scraper.mapWCAGSite(...) settles; on success the code runs on
\* to the next await: it creates scrapedData with lastUpdated = new Date()
\* and looks for the guidelines URL
MapSite(p) ==
  /\ pc[p] = "mapSite"
  /\ \/ Exit(p, "exit1")
     \/ \E us \in SiteMaps(config[p].wcagBaseUrl) :
          /\ urls' = [urls EXCEPT ![p] = us]
          /\ scrapedData' = [scrapedData EXCEPT ![p] = EmptyData(now)]
          /\ pageStatus' = [pageStatus EXCEPT ![p] =
               [g |-> IF Find(us, "guidelines").found
                      THEN "pending" ELSE "notfound",
                c |-> IF Find(us, "success-criteria").found
                      THEN "pending" ELSE "notfound"]]
          /\ pc' = [pc EXCEPT ![p] = AfterMap(us)]
          /\ UNCHANGED <<bridgeVars, mapCalls, analysisVars, result, spinner>>
  /\ UNCHANGED <<envVars, stdout>>
  /\ UNCHANGED <<cmVars, extractVars>>

\* await this.scraper.scrapePage(guidelinesUrl) settles
ScrapeGuidelines(p) ==
  /\ pc[p] = "scrapeGuidelines"
  /\ \/ Exit(p, "exit1")
     \/ /\ pageStatus' = [pageStatus EXCEPT ![p].g = "unsuccessful"]
        /\ pc' = [pc EXCEPT ![p] = AfterGuidelines(urls[p])]
        /\ UNCHANGED <<bridgeVars, urls, scrapedData, mapCalls, analysisVars,
                       result, spinner>>
     \/ /\ scrapedData' = [scrapedData EXCEPT ![p].guidelines =
             extractGuidelines(PageContent(Find(urls[p], "guidelines").url))]
        /\ pageStatus' = [pageStatus EXCEPT ![p].g = "ok"]
        /\ pc' = [pc EXCEPT ![p] = AfterGuidelines(urls[p])]
        /\ UNCHANGED <<bridgeVars, urls, mapCalls, analysisVars, result,
                       spinner>>
  /\ UNCHANGED <<envVars, stdout>>
  /\ UNCHANGED <<cmVars, extractVars>>

\* await this.scraper.scrapePage(criteriaUrl) settles
ScrapeCriteria(p) ==
  /\ pc[p] = "scrapeCriteria"
  /\ \/ Exit(p, "exit1")
     \/ /\ pageStatus' = [pageStatus EXCEPT ![p].c = "unsuccessful"]
        /\ pc' = [pc EXCEPT ![p] = "writeCache"]
        /\ UNCHANGED <<bridgeVars, urls, scrapedData, mapCalls, analysisVars,
                       result, spinner>>
     \/ /\ scrapedData' = [scrapedData EXCEPT ![p].successCriteria =
             extractSuccessCriteria(
               PageContent(Find(urls[p], "success-criteria").url))]
        /\ pageStatus' = [pageStatus EXCEPT ![p].c = "ok"]
        /\ pc' = [pc EXCEPT ![p] = "writeCache"]
        /\ UNCHANGED <<bridgeVars, urls, mapCalls, analysisVars, result,
                       spinner>>
  /\ UNCHANGED <<envVars, stdout>>
  /\ UNCHANGED <<cmVars, extractVars>>

\* updateWCAGDocumentation as it would be if the stored object were stamped
\* with a new Date() taken at the write, and scrapedData returned
WriteCache_StampAtWrite(p) ==
  /\ pc[p] = "writeCache"
  /\ \/ /\ Exit(p, "exit1")
        /\ UNCHANGED <<files, cacheSource>>
     \/ /\ config[p].cacheDir \in dirs
        /\ files' = WriteFile(files, DataPath(config[p].cacheDir),
                        SnapshotJson([scrapedData[p] EXCEPT
                                        !.lastUpdated = now]))
        /\ cacheSource' = WriteFile(cacheSource,
                                    DataPath(config[p].cacheDir),
                                    options[p].url)
        /\ result' = [result EXCEPT ![p] =
                        [kind |-> "snapshot", value |-> scrapedData[p]]]
        /\ spinner' = [spinner EXCEPT ![p] =
             [state |-> "succeed",
              guidelines |-> Len(scrapedData[p].guidelines),
              criteria |-> Len(scrapedData[p].successCriteria)]]
        /\ pc' = [pc EXCEPT ![p] = "cleanup"]
        /\ UNCHANGED <<bridgeVars, refreshVars, analysisVars>>
  /\ UNCHANGED <<now, runs, dirs, stdout>>
  /\ UNCHANGED <<cmVars, extractVars>>

\* await fs.writeJson(dataPath, scrapedData) settles; on success the method
\* returns scrapedData and the command goes on to bridge.cleanup()
WriteCache(p) ==
  /\ pc[p] = "writeCache"
  /\ \/ /\ Exit(p, "exit1")
        /\ UNCHANGED <<files, cacheSource>>
     \/ /\ config[p].cacheDir \in dirs
        /\ files' = WriteFile(files, DataPath(config[p].cacheDir),
                              SnapshotJson(scrapedData[p]))
        /\ cacheSource' = WriteFile(cacheSource,
                                    DataPath(config[p].cacheDir),
                                    options[p].url)
        /\ result' = [result EXCEPT ![p] =
                        [kind |-> "snapshot", value |-> scrapedData[p]]]
        /\ spinner' = [spinner EXCEPT ![p] =
             [state |-> "succeed",
              guidelines |-> Len(scrapedData[p].guidelines),
              criteria |-> Len(scrapedData[p].successCriteria)]]
        /\ pc' = [pc EXCEPT ![p] = "cleanup"]
        /\ UNCHANGED <<bridgeVars, refreshVars, analysisVars>>
  /\ UNCHANGED <<now, runs, dirs, stdout>>
  /\ UNCHANGED <<cmVars, extractVars>>

\* await bridge.cleanup() settles and the process ends
Cleanup(p) ==
  /\ pc[p] = "cleanup"
  /\ \E code \in {"exit0", "exit1"} : Exit(p, code)
  /\ UNCHANGED <<envVars, stdout>>
  /\ UNCHANGED <<cmVars, extractVars>>

(***************************************************************************)
(* analyze command: analyzeAccessibility.                                  *)
(***************************************************************************)
\* the markup is read from --file, fetched from --url or taken from --html,
\* in this order of precedence; with none of them the command throws.  On
\* success analyzeAccessibility is called and suspends in evaluateHTML.
ReadInput(p) ==
  /\ pc[p] = "readInput"
  /\ LET given == DOMAIN options[p]
     IN \/ /\ given \cap {"file", "url", "html"} # {}
           /\ pc' = [pc EXCEPT ![p] = "evaluate"]
           /\ UNCHANGED <<bridgeVars, refreshVars, analysisVars,
                          result, spinner>>
        \/ /\ \/ given \cap {"file", "url"} # {}
              \/ given \cap {"file", "url", "html"} = {}
           /\ Exit(p, "exit1")
  /\ UNCHANGED <<envVars, stdout>>
  /\ UNCHANGED <<cmVars, extractVars>>

\* await this.evaluator.evaluateHTML(html) settles; on success the code runs
\* on to the next await: compliance check, ARIA validation, the report with
\* timestamp = new Date(), the report path with Date.now()
Evaluate(p) ==
  /\ pc[p] = "evaluate"
  /\ \/ Exit(p, "exit1")
     \/ \E outcome \in AnalysisOutcomes :
          /\ report' = [report EXCEPT ![p] =
               BuildReport(now,
                           IF "url" \in DOMAIN options[p]
                           THEN options[p].url ELSE "local-content",
                           outcome)]
          /\ reportPath' = [reportPath EXCEPT ![p] =
               ReportPath(config[p].outputDir, now)]
          /\ calls' = [calls EXCEPT ![p] = AnalysisCalls]
          /\ pc' = [pc EXCEPT ![p] = "writeReport"]
          /\ UNCHANGED <<bridgeVars, refreshVars, result, spinner>>
  /\ UNCHANGED <<envVars, stdout>>
  /\ UNCHANGED <<cmVars, extractVars>>

\* analyzeAccessibility as it would be if fs.writeJson were not awaited:
\* the method may return the report although the write fails
WriteReport_NotAwaited(p) ==
  /\ pc[p] = "writeReport"
  /\ \/ /\ Exit(p, "exit1")
        /\ UNCHANGED files
     \/ /\ files' \in {files,
                       WriteFile(files, reportPath[p], ReportJson(report[p]))}
        /\ config[p].outputDir \in dirs
        /\ result' = [result EXCEPT ![p] =
                        [kind |-> "report", value |-> report[p]]]
        /\ spinner' = [spinner EXCEPT ![p] =
             [state |-> "succeed",
              totalIssues |-> report[p].summary.totalIssues]]
        /\ pc' = [pc EXCEPT ![p] = "cleanup"]
        /\ UNCHANGED <<bridgeVars, refreshVars, analysisVars>>
  /\ UNCHANGED <<now, runs, dirs, cacheSource, stdout>>
  /\ UNCHANGED <<cmVars, extractVars>>

\* await fs.writeJson(reportPath, report) settles; on success the method
\* returns the report and the command goes on to bridge.cleanup()
WriteReport(p) ==
  /\ pc[p] = "writeReport"
  /\ \/ /\ Exit(p, "exit1")
        /\ UNCHANGED files
     \/ /\ config[p].outputDir \in dirs
        /\ files' = WriteFile(files, reportPath[p], ReportJson(report[p]))
        /\ result' = [result EXCEPT ![p] =
                        [kind |-> "report", value |-> report[p]]]
        /\ spinner' = [spinner EXCEPT ![p] =
             [state |-> "succeed",
              totalIssues |-> report[p].summary.totalIssues]]
        /\ pc' = [pc EXCEPT ![p] = "cleanup"]
        /\ UNCHANGED <<bridgeVars, refreshVars, analysisVars>>
  /\ UNCHANGED <<now, runs, dirs, cacheSource, stdout>>
  /\ UNCHANGED <<cmVars, extractVars>>

(***************************************************************************)
(* status command.                                                         *)
(***************************************************************************)
\* the command starts and suspends in fs.pathExists(defaultConfig.cacheDir)
StartStatus(p) ==
  /\ Finished(p)
  /\ runs < MaxRuns
  /\ runs' = runs + 1
  /\ cmd' = [cmd EXCEPT ![p] = "status"]
  /\ pc' = [pc EXCEPT ![p] = "statusPathExists"]
  /\ stdout' = [stdout EXCEPT ![p] = NoOutput]
  /\ UNCHANGED <<now, dirs, files, cacheSource, options, config, env,
                 ruleCatalog, refreshVars, analysisVars, result, spinner>>
  /\ UNCHANGED <<cmVars, extractVars>>

\* the time value of new Date(undefined), an Invalid Date
InvalidDate == -1

\* object[field]?.length || 0
LengthOrZero(object, field) ==
  IF field \in DOMAIN object THEN Len(object[field]) ELSE 0

\* new Date(object.lastUpdated)
LastUpdatedOf(object) ==
  IF "lastUpdated" \in DOMAIN object THEN ParseDate(object.lastUpdated)
  ELSE InvalidDate

\* the status lines as they would be without the `|| 0` after the optional
\* chaining: a missing list is printed as undefined
StatusLines_NoDefault(cacheExists, cacheData) ==
  [printed |-> TRUE,
   cacheDirectory |-> IF cacheExists THEN "Exists" ELSE "Missing",
   wcagData |-> IF cacheData.kind = "json"
                THEN [guidelines |->
                        IF "guidelines" \in DOMAIN cacheData.value
                        THEN Len(cacheData.value.guidelines) ELSE -1,
                      criteria |->
                        IF "successCriteria" \in DOMAIN cacheData.value
                        THEN Len(cacheData.value.successCriteria) ELSE -1,
                      lastUpdated |-> LastUpdatedOf(cacheData.value)]
                ELSE [notCached |-> TRUE]]

\* what the command prints about the cache
StatusLines(cacheExists, cacheData) ==
  [printed |-> TRUE,
   cacheDirectory |-> IF cacheExists THEN "Exists" ELSE "Missing",
   wcagData |-> IF cacheData.kind = "json"
                THEN [guidelines |->
                        LengthOrZero(cacheData.value, "guidelines"),
                      criteria |->
                        LengthOrZero(cacheData.value, "successCriteria"),
                      lastUpdated |-> LastUpdatedOf(cacheData.value)]
                ELSE [notCached |-> TRUE]]

\* readJson(...).catch(() => null)
ReadJsonOrNull(fs, path) ==
  IF path \in DOMAIN fs /\ fs[path].kind = "json" THEN fs[path]
  ELSE [kind |-> "null"]

\* await fs.pathExists(defaultConfig.cacheDir) settles: without the
\* directory cacheData is null and the status is printed
StatusPathExists(p) ==
  /\ pc[p] = "statusPathExists"
  /\ IF defaultConfig.cacheDir \in dirs
     THEN /\ pc' = [pc EXCEPT ![p] = "statusReadJson"]
          /\ UNCHANGED <<bridgeVars, refreshVars, analysisVars,
                         result, spinner,
                         stdout>>
     ELSE /\ stdout' = [stdout EXCEPT ![p] =
                          StatusLines(FALSE, [kind |-> "null"])]
          /\ Exit(p, "exit0")
  /\ UNCHANGED envVars
  /\ UNCHANGED <<cmVars, extractVars>>

\* the status command as it would be if the catch removed a cache file it
\* cannot read
StatusReadJson_DropUnreadable(p) ==
  /\ pc[p] = "statusReadJson"
  /\ stdout' = [stdout EXCEPT ![p] =
       StatusLines(TRUE,
                   ReadJsonOrNull(files, DataPath(defaultConfig.cacheDir)))]
  /\ files' =
       IF ReadJsonOrNull(files, DataPath(defaultConfig.cacheDir)).kind = "null"
       THEN RemoveDir(files, defaultConfig.cacheDir) ELSE files
  /\ Exit(p, "exit0")
  /\ UNCHANGED <<now, runs, dirs, cacheSource>>
  /\ UNCHANGED <<cmVars, extractVars>>

\* await fs.readJson(<cacheDir>/wcag-data.json).catch(() => null) settles
\* and the status is printed
StatusReadJson(p) ==
  /\ pc[p] = "statusReadJson"
  /\ stdout' = [stdout EXCEPT ![p] =
       StatusLines(TRUE,
                   ReadJsonOrNull(files, DataPath(defaultConfig.cacheDir)))]
  /\ Exit(p, "exit0")
  /\ UNCHANGED envVars
  /\ UNCHANGED <<cmVars, extractVars>>

Next ==
  \/ Tick
  \/ \E p \in Procs : StartUpdateDocs(p)
  \/ \E p \in Procs : StartAnalyze(p)
  \/ \E p \in Procs : StartStatus(p)
  \/ \E p \in Procs : Initialize(p)
  \/ \E p \in Procs : MapSite(p)
  \/ \E p \in Procs : ScrapeGuidelines(p)
  \/ \E p \in Procs : ScrapeCriteria(p)
  \/ \E p \in Procs : WriteCache(p)
  \/ \E p \in Procs : Cleanup(p)
  \/ \E p \in Procs : ReadInput(p)
  \/ \E p \in Procs : Evaluate(p)
  \/ \E p \in Procs : WriteReport(p)
  \/ \E p \in Procs : StatusPathExists(p)
  \/ \E p \in Procs : StatusReadJson(p)

Spec == Init /\ [][Next]_vars

(***************************************************************************)
(* The status command on its own, over the states a cache may be in.       *)
(***************************************************************************)
\* the cache files the status command may find: none, one that is not
\* JSON, a snapshot, an object without lists and an object with one list
CacheFiles ==
  { CorruptFile, OldSnapshot,
    [kind |-> "json", value |-> [x \in {} |-> 0]],
    [kind |-> "json",
     value |-> [successCriteria |-> extractSuccessCriteria(
                                      PageContent(CriteriaUrlOf(DefaultUrl))),
                lastUpdated |-> ToISOString(0)]] }

StatusInit ==
  /\ ProcInit
  /\ CmIdle
  /\ ExtractIdle
  /\ cacheSource = [q \in {} |-> DefaultUrl]
  /\ \/ dirs = {} /\ files = NoFiles
     \/ dirs = {DefaultCacheDir} /\ files = NoFiles
     \/ /\ dirs = {DefaultCacheDir}
        /\ \E file \in CacheFiles :
             files = WriteFile(NoFiles, DataPath(DefaultCacheDir), file)

StatusNext ==
  \/ \E p \in Procs : StartStatus(p)
  \/ \E p \in Procs : StatusPathExists(p)
  \/ \E p \in Procs : StatusReadJson(p)

SpecStatus == StatusInit /\ [][StatusNext]_vars

\* the steps of a process that do not wait for the documentation source:
\* the event loop runs each of them once its file operation or call settles
LocalStep(p) ==
  \/ Initialize(p)
  \/ WriteCache(p)
  \/ Cleanup(p)
  \/ ReadInput(p)
  \/ Evaluate(p)
  \/ WriteReport(p)
  \/ StatusPathExists(p)
  \/ StatusReadJson(p)

\* a command that can go on does go on; nothing makes mapWCAGSite or
\* scrapePage settle when the documentation source does not respond
Fairness == \A p \in Procs : WF_vars(LocalStep(p))

FairSpec == Spec /\ Fairness

(***************************************************************************)
(* ConfigManager.                                                          *)
(***************************************************************************)
\* a process that imports the module starts with some config file and
\* environment, the file system and every command run at rest
ConfigInit ==
  /\ CliInit
  /\ dirs = {}
  /\ ExtractIdle
  /\ cmEnv \in CmEnvs
  /\ configFile \in ConfigFiles
  /\ cmConfig = NoConfig
  /\ cmPc = "new"
  /\ cmCall = "none"
  /\ cmCalls = 0
  /\ held = NoCopy
  /\ validation = NoValidation

\* ConfigManager.getInstance() for the first time: the constructor sets
\* this.config to the defaults and runs loadConfig()
GetInstance ==
  /\ cmPc = "new"
  /\ cmConfig' = loadConfig(getDefaultConfig, configFile, cmEnv)
  /\ cmPc' = "loaded"
  /\ UNCHANGED <<cmEnv, configFile, cmCall, cmCalls, held, validation,
                 cliVars, extractVars>>

\* configManager.validateConfig()
ValidateConfig ==
  /\ cmPc = "loaded"
  /\ cmCalls < MaxCalls
  /\ cmCalls' = cmCalls + 1
  /\ validation' = [called |-> TRUE, value |-> validateConfig(cmConfig)]
  /\ UNCHANGED <<cmEnv, configFile, cmConfig, cmPc, cmCall, held, cliVars,
                 extractVars>>

\* getConfig(): a new object with the properties of this.config, whose
\* values are the section objects of this.config
getConfig ==
  [kind |-> "copy", value |-> cmConfig, shared |-> DOMAIN cmConfig]

\* a caller calls configManager.getConfig() and keeps what it returns
GetConfig ==
  /\ cmPc = "loaded"
  /\ cmCalls < MaxCalls
  /\ cmCalls' = cmCalls + 1
  /\ held' = getConfig
  /\ UNCHANGED <<cmEnv, configFile, cmConfig, cmPc, cmCall, validation,
                 cliVars, extractVars>>

\* the caller assigns to a field of a section of the object it holds:
\* the section object is the one this.config refers to while it is shared
WriteNested(w) ==
  /\ cmPc = "loaded"
  /\ held.kind = "copy"
  /\ held.value[w.section][w.field] # w.value
  /\ held' = [held EXCEPT !.value[w.section][w.field] = w.value]
  /\ cmConfig' = IF w.section \in held.shared
                 THEN [cmConfig EXCEPT ![w.section][w.field] = w.value]
                 ELSE cmConfig
  /\ UNCHANGED <<cmEnv, configFile, cmPc, cmCall, cmCalls, validation,
                 cliVars, extractVars>>

\* the caller assigns a new section object to the object it holds
WriteTopLevel(w) ==
  /\ cmPc = "loaded"
  /\ held.kind = "copy"
  /\ held.value[w.section] # w.value
  /\ held' = [held EXCEPT !.value[w.section] = w.value,
                          !.shared = @ \ {w.section}]
  /\ UNCHANGED <<cmEnv, configFile, cmConfig, cmPc, cmCall, cmCalls,
                 validation, cliVars, extractVars>>

\* updateConfig(updates) up to the first await of saveConfig: this.config
\* becomes a new object whose sections are those of updates where it has
\* them, so these are no longer the objects an earlier getConfig returned
UpdateConfig(updates) ==
  /\ cmPc = "loaded"
  /\ cmCalls < MaxCalls
  /\ cmCalls' = cmCalls + 1
  /\ cmConfig' = Spread(cmConfig, updates)
  /\ held' = IF held.kind = "copy"
             THEN [held EXCEPT !.shared = @ \ DOMAIN updates]
             ELSE held
  /\ cmCall' = "updateConfig"
  /\ cmPc' = "ensureDir"
  /\ UNCHANGED <<cmEnv, configFile, validation, cliVars, extractVars>>

\* resetToDefaults() with its configuration taken from the file and the
\* environment again
ResetToDefaults_Reload ==
  /\ cmPc = "loaded"
  /\ cmCalls < MaxCalls
  /\ cmCalls' = cmCalls + 1
  /\ cmConfig' = loadConfig(getDefaultConfig, configFile, cmEnv)
  /\ held' = IF held.kind = "copy" THEN [held EXCEPT !.shared = {}]
             ELSE held
  /\ cmCall' = "resetToDefaults"
  /\ cmPc' = "ensureDir"
  /\ UNCHANGED <<cmEnv, configFile, validation, cliVars, extractVars>>

\* resetToDefaults() up to the first await of saveConfig: this.config
\* becomes a new object with new sections
ResetToDefaults ==
  /\ cmPc = "loaded"
  /\ cmCalls < MaxCalls
  /\ cmCalls' = cmCalls + 1
  /\ cmConfig' = getDefaultConfig
  /\ held' = IF held.kind = "copy" THEN [held EXCEPT !.shared = {}]
             ELSE held
  /\ cmCall' = "resetToDefaults"
  /\ cmPc' = "ensureDir"
  /\ UNCHANGED <<cmEnv, configFile, validation, cliVars, extractVars>>

\* saveConfig: await fs.ensureDir(...) resolves, or rejects and the catch
\* logs the error and saveConfig returns
EnsureDir ==
  /\ cmPc = "ensureDir"
  /\ \/ cmPc' = "writeJson"
     \/ cmPc' = "loaded"
  /\ UNCHANGED <<cmEnv, configFile, cmConfig, cmCall, cmCalls, held,
                 validation, cliVars, extractVars>>

\* saveConfig: await fs.writeJson(...) resolves with the file written, or
\* rejects and the catch logs the error; saveConfig returns either way
WriteJson ==
  /\ cmPc = "writeJson"
  /\ \/ configFile' = ConfigJson(cmConfig)
     \/ configFile' = configFile
  /\ cmPc' = "loaded"
  /\ UNCHANGED <<cmEnv, cmConfig, cmCall, cmCalls, held, validation,
                 cliVars, extractVars>>

\* One caller uses the singleton and awaits each call before the next.
ConfigNext ==
  \/ GetInstance
  \/ ValidateConfig
  \/ GetConfig
  \/ \E w \in NestedWrites : WriteNested(w)
  \/ \E w \in TopLevelWrites : WriteTopLevel(w)
  \/ \E updates \in UpdateInputs : UpdateConfig(updates)
  \/ ResetToDefaults
  \/ EnsureDir
  \/ WriteJson

SpecConfig == ConfigInit /\ [][ConfigNext]_vars

(***************************************************************************)
(* The extraction, run on page texts of its own.                           *)
(***************************************************************************)
\* the lines a page text may consist of
ExtractLines ==
  { Line(nums, rest, marks) :
      nums \in {<<>>, <<7>>, <<1, 1>>, <<1, 4, 3>>, <<2, 4, 1, 1>>},
      rest \in {"", "Contrast"},
      marks \in {{}, {"aa"}, {"aa", "aaa"}} }

\* the page texts of at most n lines
RECURSIVE PageTexts(_)
PageTexts(n) ==
  IF n = 0 THEN {<<>>}
  ELSE PageTexts(n - 1)
         \cup { Append(t, l) : t \in PageTexts(n - 1), l \in ExtractLines }

ExtractInit ==
  /\ CliInit
  /\ dirs = {}
  /\ CmIdle
  /\ pageText \in PageTexts(MaxLines)
  /\ extracted = [kind |-> "none"]

\* this.extractSuccessCriteria(result.content)
ApplyExtractSuccessCriteria ==
  /\ extracted.kind = "none"
  /\ extracted' = [kind |-> "successCriteria",
                   value |-> extractSuccessCriteria(pageText)]
  /\ UNCHANGED <<pageText, cliVars, cmVars>>

\* this.extractGuidelines(result.content)
ApplyExtractGuidelines ==
  /\ extracted.kind = "none"
  /\ extracted' = [kind |-> "guidelines",
                   value |-> extractGuidelines(pageText)]
  /\ UNCHANGED <<pageText, cliVars, cmVars>>

ExtractNext ==
  \/ ApplyExtractSuccessCriteria
  \/ ApplyExtractGuidelines

SpecExtract == ExtractInit /\ [][ExtractNext]_vars

(***************************************************************************)
(* Vocabulary of the properties.                                           *)
(***************************************************************************)
\* the awaits of updateWCAGDocumentation
RefreshPcs == {"mapSite", "scrapeGuidelines", "scrapeCriteria", "writeCache"}
\* the awaits of initialize and of the analysis
AnalysisPcs == {"initialize", "readInput", "evaluate", "writeReport"}
\* an updateWCAGDocumentation call of process p is in flight
Refreshing(p) == cmd[p] = "update-docs" /\ pc[p] \in RefreshPcs
\* updateWCAGDocumentation of process p returns in this step
RefreshReturns(p) == pc[p] = "writeCache" /\ pc'[p] = "cleanup"
\* the directories a cache file may be in
CacheDirs == {DefaultCacheDir, OtherCacheDir, DefaultOutputDir}
\* the cache file of a directory in file system fs, [kind |-> "absent"] if
\* there is none
CacheIn(fs, dir) ==
  IF DataPath(dir) \in DOMAIN fs THEN fs[DataPath(dir)]
  ELSE [kind |-> "absent"]
\* the snapshot a cache file holds, read back
SnapshotOfJson(file) ==
  [file.value EXCEPT !.lastUpdated = ParseDate(file.value.lastUpdated)]
\* age of the snapshot in the cache directory of process p
Populated(p) == CacheIn(files, config[p].cacheDir).kind = "json"
Age(p) ==
  now - ParseDate(CacheIn(files, config[p].cacheDir).value.lastUpdated)
Fresh(p) == Populated(p) /\ Age(p) < config[p].updateInterval
Stale(p) == Populated(p) /\ Age(p) >= config[p].updateInterval
\* a page of the refresh of process p could not be obtained
PageMissing(p) ==
  \/ pageStatus[p].g \in {"notfound", "unsuccessful"}
  \/ pageStatus[p].c \in {"notfound", "unsuccessful"}
\* the ids of a list of guidelines or criteria
Ids(list) == { list[i].id : i \in 1..Len(list) }

(***************************************************************************)
(* C1.  Two refresh calls for the same documentation source that overlap   *)
(* in time perform one fetch of the source: at any moment at most one      *)
(* updateWCAGDocumentation call per source is mapping, scraping or writing *)
(* (the other caller would be waiting for it).                             *)
(***************************************************************************)
C1_OneFetchPerSource ==
  \A p \in Procs : \A q \in Procs :
    (p # q /\ Refreshing(p) /\ Refreshing(q)) =>
      \/ config[p].wcagBaseUrl # config[q].wcagBaseUrl
      \/ options[p].url # options[q].url

(***************************************************************************)
(* C2.  A refresh whose fetch failed (the site mapping threw, a page       *)
(* scrape threw or was unsuccessful, or a page was not found) changes      *)
(* neither the snapshot the cache file held before nor the rule catalog of *)
(* its bridge.                                                             *)
(***************************************************************************)
C2_FailedRefreshKeepsSnapshot ==
  [][\A p \in Procs :
       (/\ Refreshing(p)
        /\ pc'[p] # pc[p]
        /\ Populated(p)
        /\ \/ PageMissing(p)
           \/ pc[p] # "writeCache" /\ pc'[p] = "exit1")
       => /\ CacheIn(files', config[p].cacheDir)
               = CacheIn(files, config[p].cacheDir)
          /\ pc'[p] # "exit1" => ruleCatalog'[p] = ruleCatalog[p]]_vars

(***************************************************************************)
(* C3.  A refresh call that returns has stored in the cache file exactly   *)
(* the snapshot it returns, whose lastUpdated was read from the clock      *)
(* during the call; and the cache file changes in no other step, so after  *)
(* refreshes that do not overlap the cache holds the snapshot of the last  *)
(* one that returned.                                                      *)
(***************************************************************************)
C3_PersistsReturnedSnapshot ==
  [][/\ \A p \in Procs :
          /\ (pc[p] = "mapSite" /\ pc'[p] \in RefreshPcs \ {"mapSite"})
               => scrapedData'[p].lastUpdated = now
          /\ (pc[p] \in RefreshPcs \ {"mapSite"} /\ pc'[p] \in RefreshPcs)
               => scrapedData'[p].lastUpdated = scrapedData[p].lastUpdated
          /\ RefreshReturns(p)
               => /\ result'[p].kind = "snapshot"
                  /\ result'[p].value.lastUpdated = scrapedData[p].lastUpdated
                  /\ CacheIn(files', config[p].cacheDir)
                       = SnapshotJson(result'[p].value)
                  /\ SnapshotOfJson(CacheIn(files', config[p].cacheDir))
                       = result'[p].value
     /\ \A d \in CacheDirs :
          CacheIn(files', d) # CacheIn(files, d)
            => \E p \in Procs : RefreshReturns(p) /\ config[p].cacheDir = d
    ]_vars

\* the second refresh of a behaviour has returned a snapshot stamped after a
\* clock tick, and the cache file holds it
C3_Witness ==
  \E p \in Procs :
    /\ cmd[p] = "update-docs" /\ pc[p] = "cleanup" /\ runs = 2
    /\ result[p].kind = "snapshot"
    /\ result[p].value.lastUpdated > 0
    /\ result[p].value.guidelines # <<>>
    /\ CacheIn(files, config[p].cacheDir) = SnapshotJson(result[p].value)

(***************************************************************************)
(* C4.  When a refresh has returned, the ids of the guidelines and success *)
(* criteria it extracted are in the rule catalog of the evaluator of the   *)
(* same bridge.                                                            *)
(***************************************************************************)
C4_RefreshMergesRules ==
  \A p \in Procs :
    (cmd[p] = "update-docs" /\ pc[p] = "cleanup")
      => (Ids(result[p].value.guidelines)
            \cup Ids(result[p].value.successCriteria)) \subseteq ruleCatalog[p]

(***************************************************************************)
(* C5.  While the cached snapshot is Fresh, a refresh trigger starts no    *)
(* fetch: the call of updateWCAGDocumentation does not reach mapWCAGSite,  *)
(* and no step of a refresh changes the Fresh cache file.                  *)
(***************************************************************************)
C5_FreshCacheNotRefetched ==
  [][\A p \in Procs :
       (cmd[p] = "update-docs" /\ Fresh(p) /\ pc'[p] # pc[p])
         => /\ pc[p] = "initialize" => pc'[p] \notin RefreshPcs
            /\ files' = files]_vars

(***************************************************************************)
(* C6.  When the cached snapshot is Stale, calling analyzeAccessibility    *)
(* starts a refresh: the process is in updateWCAGDocumentation after the   *)
(* call.                                                                   *)
(***************************************************************************)
C6_StaleCacheStartsRefresh ==
  [][\A p \in Procs :
       (/\ cmd[p] = "analyze" /\ pc[p] = "readInput"
        /\ pc'[p] \notin {"readInput", "exit1"}
        /\ Stale(p))
       => pc'[p] \in RefreshPcs]_vars

(***************************************************************************)
(* C7.  The lastUpdated of the snapshot in a cache file never decreases.   *)
(***************************************************************************)
C7_LastUpdatedNeverDecreases ==
  [][\A d \in CacheDirs :
       (CacheIn(files, d).kind = "json" /\ CacheIn(files', d).kind = "json")
         => ParseDate(CacheIn(files', d).value.lastUpdated)
              >= ParseDate(CacheIn(files, d).value.lastUpdated)]_vars

(***************************************************************************)
(* C8.  A refresh run for source URL A never replaces the persisted        *)
(* snapshot of a different source URL B: a cache file that changes keeps   *)
(* the source it was stored for.                                           *)
(***************************************************************************)
C8_SnapshotsKeyedBySource ==
  [][\A path \in DOMAIN cacheSource :
       \/ path \in DOMAIN files' /\ files'[path] = files[path]
       \/ cacheSource'[path] = cacheSource[path]]_vars

(***************************************************************************)
(* C9.  No step of initialize or of the analysis creates, changes or       *)
(* deletes a cache file.                                                   *)
(***************************************************************************)
C9_OnlyRefreshWritesCache ==
  [][\A p \in Procs :
       (pc[p] \in AnalysisPcs /\ pc'[p] # pc[p])
         => \A d \in CacheDirs : CacheIn(files', d) = CacheIn(files, d)]_vars

\* an analysis has written its report and returned while a cache file
\* exists
C9_Witness ==
  \E p \in Procs :
    /\ cmd[p] = "analyze" /\ pc[p] = "cleanup"
    /\ reportPath[p] \in DOMAIN files
    /\ CacheIn(files, config[p].cacheDir).kind = "json"

(***************************************************************************)
(* C10.  No step of the status command changes a file, a directory or the  *)
(* configuration, whatever the state of the cache.                         *)
(***************************************************************************)
C10_StatusReadOnly ==
  [][\A p \in Procs :
       ((cmd[p] = "status" \/ cmd'[p] = "status") /\ pc'[p] # pc[p])
         => /\ files' = files
            /\ dirs' = dirs
            /\ config' = config]_vars

\* the status command has reported an unreadable cache file as not cached,
\* and the file is still there
C10_Witness ==
  \E p \in Procs :
    /\ pc[p] = "exit0"
    /\ stdout[p] = StatusLines(TRUE, [kind |-> "null"])
    /\ CacheIn(files, defaultConfig.cacheDir).kind = "corrupt"

(***************************************************************************)
(* Vocabulary of the properties of the analysis.                           *)
(***************************************************************************)
\* analyzeAccessibility of process p returns in this step
AnalysisReturns(p) == pc[p] = "writeReport" /\ pc'[p] = "cleanup"
\* the position of the first call of a component in a call sequence, 0 if
\* it was not called
CallIndex(cs, callee) ==
  IF \E i \in 1..Len(cs) : cs[i].callee = callee
  THEN CHOOSE i \in 1..Len(cs) :
         /\ cs[i].callee = callee
         /\ \A j \in 1..(i - 1) : cs[j].callee # callee
  ELSE 0
\* the values the compliance scorer was called with
ScorerArgs(cs) ==
  LET a == cs[CallIndex(cs, "wcagChecker.evaluateCompliance")].args
  IN { a[i] : i \in 1..Len(a) }
\* the target level the caller of the run asked for: WCAG_LEVEL, AA if unset
RequestedLevel(p) ==
  IF "WCAG_LEVEL" \in DOMAIN env[p] THEN env[p].WCAG_LEVEL ELSE "AA"
\* the report a report artifact holds, read back
ReportOfJson(file) ==
  [file.value EXCEPT !.timestamp = ParseDate(file.value.timestamp)]

(***************************************************************************)
(* C11.  When analyzeAccessibility has made its component calls, the       *)
(* evaluator was called before the ARIA validator, the ARIA validator      *)
(* before the compliance scorer, and the scorer was given both the         *)
(* evaluation result and the ARIA result.                                  *)
(***************************************************************************)
C11_ScorerAfterAriaValidator ==
  \A p \in Procs :
    pc[p] = "writeReport" =>
      /\ 0 < CallIndex(calls[p], "evaluator.evaluateHTML")
      /\ CallIndex(calls[p], "evaluator.evaluateHTML")
           < CallIndex(calls[p], "ariaValidator.validate")
      /\ CallIndex(calls[p], "ariaValidator.validate")
           < CallIndex(calls[p], "wcagChecker.evaluateCompliance")
      /\ {"evaluationResult", "ariaResult"} \subseteq ScorerArgs(calls[p])

(***************************************************************************)
(* C12.  The target level analyzeAccessibility evaluates compliance        *)
(* against is the level the caller of the run asked for, AA when the       *)
(* caller asked for none.                                                  *)
(***************************************************************************)
C12_TargetLevelOfCaller ==
  \A p \in Procs :
    pc[p] = "writeReport" => RequestedLevel(p) \in ScorerArgs(calls[p])

(***************************************************************************)
(* C13.  summary.meetsAA of a report is true exactly when the compliance   *)
(* level of the report is AA or AAA.                                       *)
(***************************************************************************)
C13_MeetsAATotalOrder ==
  \A p \in Procs :
    pc[p] = "writeReport" =>
      (report[p].summary.meetsAA
         <=> report[p].summary.complianceLevel \in {"AA", "AAA"})

(***************************************************************************)
(* C14.  An analysis that persists its report writes a file that did not   *)
(* exist before: no report artifact is overwritten.                        *)
(***************************************************************************)
C14_ReportNamesUnique ==
  [][\A p \in Procs :
       AnalysisReturns(p) => reportPath[p] \notin DOMAIN files]_vars

(***************************************************************************)
(* C15.  An analyzeAccessibility call that returns, returns the report it  *)
(* built (evaluation result, compliance report and ARIA result) and has    *)
(* stored exactly that report in a file of the output directory; every     *)
(* other step of an analysis, a failing one included, writes no file, and  *)
(* only a call that returned holds a returned report.                      *)
(***************************************************************************)
C15_ReturnedReportPersisted ==
  [][\A p \in Procs :
       /\ AnalysisReturns(p)
            => /\ result'[p] = [kind |-> "report", value |-> report[p]]
               /\ {"evaluation", "compliance", "aria"}
                    \subseteq DOMAIN result'[p].value
               /\ reportPath[p][1] = config[p].outputDir
               /\ reportPath[p] \in DOMAIN files'
               /\ files'[reportPath[p]] = ReportJson(result'[p].value)
               /\ ReportOfJson(files'[reportPath[p]]) = result'[p].value
       /\ (/\ cmd[p] = "analyze" /\ pc[p] \in AnalysisPcs
           /\ pc'[p] # pc[p] /\ ~AnalysisReturns(p))
            => files' = files /\ result'[p].kind # "report"
    ]_vars

\* an analysis has returned a report with issues, and its artifact holds it
C15_Witness ==
  \E p \in Procs :
    /\ cmd[p] = "analyze" /\ pc[p] = "cleanup"
    /\ result[p].kind = "report"
    /\ result[p].value.summary.totalIssues > 0
    /\ result[p].value.aria.issues > 0
    /\ reportPath[p] \in DOMAIN files
    /\ files[reportPath[p]] = ReportJson(result[p].value)

(***************************************************************************)
(* C16.  A step that ends the scrape of one documentation page goes on     *)
(* with the refresh (the next page, or the write of the cache file),       *)
(* whether the scrape succeeded, was unsuccessful or threw.                *)
(***************************************************************************)
C16_PageFailureIsolated ==
  [][\A p \in Procs :
       /\ (pc[p] = "scrapeGuidelines" /\ pc'[p] # pc[p])
            => pc'[p] = AfterGuidelines(urls[p])
       /\ (pc[p] = "scrapeCriteria" /\ pc'[p] # pc[p])
            => pc'[p] = "writeCache"]_vars

(***************************************************************************)
(* C17.  A refresh that returns although it could not obtain a page (no    *)
(* matching URL, or an unsuccessful scrape) has not left its spinner at    *)
(* plain success: the output carries a warning or a failure.               *)
(***************************************************************************)
C17_MissingPageWarned ==
  \A p \in Procs :
    (cmd[p] = "update-docs" /\ pc[p] = "cleanup" /\ PageMissing(p))
      => spinner[p].state \in {"warn", "fail"}

(***************************************************************************)
(* C19.  A refresh that returns has fetched from the base URL its caller   *)
(* gave with --url and has stored the returned snapshot in the cache       *)
(* directory its caller gave with --cache.                                 *)
(***************************************************************************)
C19_RefreshHonoursOptions ==
  [][\A p \in Procs :
       RefreshReturns(p)
         => /\ \A i \in 1..Len(urls[p]) : urls[p][i].base = options[p].url
            /\ CacheIn(files', options[p].cache)
                 = SnapshotJson(scrapedData[p])]_vars

(***************************************************************************)
(* C18.  The configuration the ConfigManager holds after loading is one    *)
(* that validateConfig reports as valid.                                   *)
(***************************************************************************)
C18_LoadedConfigValid ==
  cmPc = "loaded" => validateConfig(cmConfig).isValid

(***************************************************************************)
(* C20.  extractSuccessCriteria returns a list for every page text, with   *)
(* one criterion for each line that has a three-part number and a title;   *)
(* the level of each criterion is A, AA or AAA: AAA when its line has an   *)
(* AAA marker, AA when it has an AA marker and no AAA marker, A when it    *)
(* has no level marker.                                                    *)
(***************************************************************************)
\* the line is one extractSuccessCriteria takes a criterion from
IsCriterionLine(line) == Len(line.nums) >= 3 /\ line.rest # ""

C20_CriteriaLevelFromMarkers ==
  extracted.kind = "successCriteria" =>
    LET lines == SelectSeq(pageText, IsCriterionLine)
        criteria == extracted.value
    IN /\ Len(criteria) = Len(lines)
       /\ \A i \in 1..Len(criteria) :
            /\ criteria[i].level \in {"A", "AA", "AAA"}
            /\ "aaa" \in lines[i].marks => criteria[i].level = "AAA"
            /\ ("aa" \in lines[i].marks /\ "aaa" \notin lines[i].marks)
                 => criteria[i].level = "AA"
            /\ lines[i].marks \cap {"aa", "aaa"} = {}
                 => criteria[i].level = "A"

\* a page text of a line with an AAA marker and a line with no marker has
\* given two criteria
C20_Witness ==
  /\ extracted.kind = "successCriteria"
  /\ Len(extracted.value) = 2
  /\ "aaa" \in pageText[1].marks
  /\ pageText[2].marks = {}
  /\ extracted.value[1].level = "AAA"
  /\ extracted.value[2].level = "A"

(***************************************************************************)
(* C21.  One refresh trigger makes at most one attempt to map and scrape   *)
(* the source: a refresh calls mapWCAGSite once, the call is made when the *)
(* command reaches updateWCAGDocumentation and in no later step, failed or *)
(* not, and a command reaches it only in a run that was started.           *)
(***************************************************************************)
C21_OneAttemptPerTrigger ==
  [][\A p \in Procs :
       /\ mapCalls'[p] <= 1
       /\ mapCalls'[p] > mapCalls[p] => pc[p] = "initialize"
       /\ (pc'[p] = "mapSite" /\ pc[p] # "mapSite") => pc[p] = "initialize"
       /\ (pc'[p] = "initialize" /\ pc[p] # "initialize")
            => runs' = runs + 1
       /\ (Refreshing(p) /\ pc'[p] = "exit1") => mapCalls'[p] = 0]_vars

\* the second run of a behaviour is a refresh whose scrape of the guidelines
\* page was unsuccessful; it has gone on to its end with one mapWCAGSite call
C21_Witness ==
  \E p \in Procs :
    /\ cmd[p] = "update-docs" /\ pc[p] = "cleanup" /\ runs = 2
    /\ pageStatus[p].g = "unsuccessful"
    /\ mapCalls[p] = 1

(***************************************************************************)
(* C22.  A refresh that waits for the documentation source eventually      *)
(* stops waiting, whether the source responds or not: the call to          *)
(* mapWCAGSite is eventually over.                                         *)
(***************************************************************************)
C22_RefreshTerminates ==
  \A p \in Procs : (pc[p] = "mapSite") ~> (pc[p] # "mapSite")

C30_CleanupBeforeExit ==
  [][\A p \in Procs :
       (/\ cmd[p] \in {"update-docs", "analyze"}
        /\ pc[p] \notin {"exit0", "exit1"}
        /\ pc'[p] \in {"exit0", "exit1"})
       => pc[p] = "cleanup"]_vars

\* the settings that have an environment variable: section, field, variable
EnvSettings ==
  { <<"scraper", "wcagBaseUrl", "WCAG_BASE_URL">>,
    <<"scraper", "maxConcurrentRequests", "MAX_CONCURRENT_REQUESTS">>,
    <<"scraper", "requestDelayMs", "REQUEST_DELAY_MS">>,
    <<"scraper", "timeoutMs", "TIMEOUT_MS">>,
    <<"evaluator", "wcagLevel", "WCAG_LEVEL">>,
    <<"evaluator", "minImpactLevel", "MIN_IMPACT_LEVEL">>,
    <<"integration", "updateInterval", "UPDATE_INTERVAL">>,
    <<"logging", "level", "LOG_LEVEL">> }
\* the config file gives a value for the field
FileGives(file, section, field) ==
  /\ file.kind = "json"
  /\ section \in DOMAIN file.value
  /\ field \in DOMAIN file.value[section]
\* the value the precedence defaults < config file < environment gives
PrecedenceValue(file, e, section, field, name) ==
  IF name \in DOMAIN e
  THEN IF field \in NumericFields THEN parseInt(e[name]) ELSE e[name]
  ELSE IF FileGives(file, section, field) THEN file.value[section][field]
  ELSE getDefaultConfig[section][field]
\* the step is the construction of the singleton
Loads == cmPc = "new" /\ cmPc' = "loaded"

(***************************************************************************)
(* C23.  The loaded value of every setting that has an environment         *)
(* variable is the value of the variable when it is set, else the value    *)
(* the config file gives, else the built-in default.                       *)
(***************************************************************************)
C23_SourcePrecedence ==
  [][Loads =>
       \A t \in EnvSettings :
         /\ t[2] \in DOMAIN cmConfig'[t[1]]
         /\ cmConfig'[t[1]][t[2]] =
              PrecedenceValue(configFile, cmEnv, t[1], t[2], t[3])]_vars

\* the numeric settings are numbers within their ranges
InRange(section, field, min) ==
  /\ field \in DOMAIN section
  /\ "num" \in DOMAIN section[field]
  /\ section[field].num >= min
NumbersInRange(c) ==
  /\ InRange(c.scraper, "maxConcurrentRequests", 1)
  /\ InRange(c.scraper, "requestDelayMs", 0)
  /\ InRange(c.scraper, "timeoutMs", 1000)
  /\ InRange(c.integration, "updateInterval", 1)
  /\ InRange(c.integration, "cacheExpiration", 1)

(***************************************************************************)
(* C24.  When validateConfig returns isValid = true for the configuration  *)
(* loaded from the file and the environment, the numeric settings of the   *)
(* configuration are in range: maxConcurrentRequests >= 1, requestDelayMs  *)
(* >= 0, timeoutMs >= 1000, updateInterval >= 1 and cacheExpiration >= 1.  *)
(***************************************************************************)
C24_ValidMeansInRange ==
  [][(/\ cmPc = "loaded"
      /\ validation'.called
      /\ cmCalls' = cmCalls + 1
      /\ validation'.value = validateConfig(cmConfig)
      /\ validation'.value.isValid)
     => NumbersInRange(cmConfig)]_vars

\* the step is one of a resetToDefaults call: its start or the return of
\* one of the awaits of its saveConfig
ResetStep == cmCall' = "resetToDefaults" /\ cmPc' # cmPc

(***************************************************************************)
(* C25.  Each step of a resetToDefaults call leaves the ConfigManager      *)
(* with the built-in default configuration, which is what getConfig        *)
(* returns, whatever the config file, the environment and earlier          *)
(* updateConfig calls were, and the config file as it was or holding the   *)
(* default configuration; so a second call leaves the state of the first.  *)
(***************************************************************************)
C25_ResetRestoresDefaults ==
  [][ResetStep =>
       /\ cmConfig' = getDefaultConfig
       /\ getConfig'.value = getDefaultConfig
       /\ configFile' \in {configFile, ConfigJson(getDefaultConfig)}
       /\ (/\ cmConfig = getDefaultConfig
           /\ configFile = ConfigJson(getDefaultConfig))
          => (cmConfig' = cmConfig /\ configFile' = configFile)]_vars

\* resetToDefaults has returned after an updateConfig call, with the
\* environment and the config file giving other values than the defaults
C25_Witness ==
  /\ cmCall = "resetToDefaults"
  /\ cmPc = "loaded"
  /\ cmCalls >= 2
  /\ cmEnv # NoEnv
  /\ loadConfig(getDefaultConfig, configFile, cmEnv) # getDefaultConfig
  /\ configFile = ConfigJson(getDefaultConfig)
  /\ cmConfig = getDefaultConfig

\* every field of the default configuration that the given sections do not
\* mention has its default value in c
KeepsDefaults(c, given) ==
  \A s \in DOMAIN getDefaultConfig :
    \A f \in DOMAIN getDefaultConfig[s] :
      (s \notin DOMAIN given \/ f \notin DOMAIN given[s])
        => (f \in DOMAIN c[s] /\ c[s][f] = getDefaultConfig[s][f])

(***************************************************************************)
(* C27.  After the configuration is loaded with no environment variable    *)
(* set, every field the config file does not mention has its built-in      *)
(* default, also when the file has other fields of the same section; and   *)
(* updateConfig leaves every field its argument does not mention as it     *)
(* was.                                                                    *)
(***************************************************************************)
C27_PartialSectionKeepsDefaults ==
  [][/\ (Loads /\ cmEnv = NoEnv) =>
          KeepsDefaults(cmConfig',
                        IF configFile.kind = "json" THEN configFile.value
                        ELSE NoConfig)
     /\ (cmPc = "loaded" /\ cmPc' = "ensureDir"
           /\ cmCall' = "updateConfig") =>
          \A s \in DOMAIN cmConfig :
            \A f \in DOMAIN cmConfig[s] :
              \/ f \in DOMAIN cmConfig'[s] /\ cmConfig'[s][f] = cmConfig[s][f]
              \/ \E updates \in UpdateInputs :
                   /\ s \in DOMAIN updates
                   /\ f \in DOMAIN updates[s]
                   /\ cmConfig' = Spread(cmConfig, updates)]_vars

(***************************************************************************)
(* C28.  A step in which no ConfigManager method runs, such as a caller's  *)
(* assignment to the object getConfig returned or to one of its sections,  *)
(* leaves the configuration the ConfigManager holds unchanged.             *)
(***************************************************************************)
C28_GetConfigIsACopy ==
  [][(cmPc' = cmPc /\ cmCalls' = cmCalls) => cmConfig' = cmConfig]_vars

(***************************************************************************)
(* C29.  When an updateConfig or resetToDefaults call returns, the config  *)
(* file holds the configuration the ConfigManager holds.                   *)
(***************************************************************************)
C29_PersistedEqualsMemory ==
  [][(cmPc \in {"ensureDir", "writeJson"} /\ cmPc' = "loaded")
       => configFile' = ConfigJson(cmConfig')]_vars
====
